---- MODULE Spec2Model ----
(***************************************************************************)
(* A model of package ioseq (src/seq.go, lines 1-254): the adapters        *)
(* between a pull sequence (iter.Seq2[[]byte, error]) and io.Reader /       *)
(* io.Writer.                                                               *)
(*                                                                          *)
(* Everything runs on one thread of control, so every exported call        *)
(* (Read, Close, WriteTo, Write) is one atomic action: the part of the     *)
(* producer that runs inside the call (up to its next yield, or to its     *)
(* return) is part of the action.                                           *)
(*                                                                          *)
(* A []byte is modelled as a window [lo, hi] over the storage that backs   *)
(* it, so that a slice held by the reader aliases the producer's buffer as *)
(* it does in Go.                                                           *)
(***************************************************************************)
EXTENDS Integers, Sequences, FiniteSets, TLC

\* ------------------------------------------------------------------ bounds

\* Longest program of a producer (steps of a sequence, fills or writes of a source).
MaxSteps == 3

\* Longest destination buffer a caller passes to Read.
MaxBuf == 2

\* Most Write calls made on one sequence sink.
MaxWrites == 4

\* Length of the buffer a generator writes prefixes of to a sequence sink.
BufCap == 3

\* Most Write calls of that generator.
MaxBufWrites == 2

\* ------------------------------------------------------------- input values

\* The chunks a producer or a source may hand out; <<>> is the empty chunk.
Chunks == {<<>>, <<1>>, <<2, 3>>}

\* A genuine failure of a producer or a source.
Errs == {"E1"}

\* The failure of a destination sink (io.Writer) that stops accepting data.
ErrSink == "EW"

Min(a, b) == IF a < b THEN a ELSE b

\* The kinds of sequence a reader is built over:
\*   "seq"      a sequence emitting the steps of prog (as the tests' input funcs)
\*   "fallback" SeqFromReader(src, bufSize), src a plain io.Reader whose fills are prog
\*   "fast"     SeqFromReader(src, bufSize), src an io.WriterTo whose writes are prog
\*   "gen"      ReaderWithContent(generate)'s sequence, generate's writes being prog
\*              (not among Kinds: it has specifications of its own)
Kinds == {"seq", "fallback", "fast"}

\* One step of a sequence: a chunk (possibly empty) or an error, never both.
\* absent says that the slice is nil.
ChunkStep(c) == [chunk |-> c, absent |-> FALSE, err |-> "nil"]
ErrStep(e) == [chunk |-> <<>>, absent |-> TRUE, err |-> e]

\* w.Write(nil) by a source that writes itself to a sink.
NilWrite == [chunk |-> <<>>, absent |-> TRUE, err |-> "nil"]

ChunkSteps == {ChunkStep(c) : c \in Chunks}
ErrSteps == {ErrStep(e) : e \in Errs}

\* The lists of at most n chunk steps.
ChunkLists(n) == UNION {[1..k -> ChunkSteps] : k \in 0..n}

\* The programs of a "seq" or "fast" producer: chunk steps, then at most one
\* error step, which is the last one (the sequence ends at the first error).
StepProgs ==
    ChunkLists(MaxSteps)
        \cup {Append(s, e) : s \in ChunkLists(MaxSteps - 1), e \in ErrSteps}

\* One fill of a plain source: Read(buf) returns (len(chunk), sig),
\* sig one of nil, io.EOF or a failure.
Fill(c, sig) == [chunk |-> c, absent |-> FALSE, err |-> sig]

\* The programs of a "fallback" source: fills with a nil signal, then at most
\* one fill with a terminal signal.  A source whose fills run out returns
\* (0, io.EOF).
FillProgs ==
    ChunkLists(MaxSteps)
        \cup {Append(s, Fill(c, sig)) :
                  s \in ChunkLists(MaxSteps - 1),
                  c \in Chunks, sig \in {"EOF"} \cup Errs}

Progs(k) == IF k = "fallback" THEN FillProgs ELSE StepProgs

\* The programs of a source that writes itself to a sink: writes, of a nil
\* slice too, and the result of its WriteTo, nil or a failure.
WriteLists(n) == UNION {[1..k -> ChunkSteps \cup {NilWrite}] : k \in 0..n}

WriteProgs ==
    WriteLists(MaxSteps)
        \cup {Append(s, e) : s \in WriteLists(MaxSteps - 1), e \in ErrSteps}

\* What a source's WriteTo may return after a write to its sink has failed:
\* the error of the write, nil, or a failure of its own.
SrcRets == {"ErrSequenceTerminated", "nil"} \cup Errs

\* bufSize of SeqFromReader: the longest fill fits.
BufSize == 2

\* ---------------------------------------------------------------- state

VARIABLES
    kind,     \* the kind of sequence the reader is built over
    prog,     \* the program of its producer (steps, fills or writes)
    p,        \* the running invocation of the sequence function (the producer)
    r,        \* the iterReader: seq, next, close, err, data
    co,       \* the iter.Pull2 continuation behind r.next and r.close
    crashed,  \* the process died (unbounded recursion overflowed the stack)
    out,      \* the bytes the Read calls on this reader have returned, in order
    sink,     \* the bytes the WriteTo calls on this reader have written, in order
    last,     \* the last call on the reader and what it returned
    h,        \* what has happened on this reader so far (history)
    hist,     \* the outcomes of whole-stream transfers by readers over this sequence
    sw,       \* a seqWriter, its shared active flag and the step function behind it
    cb,       \* the buffer of a seqWriter's caller and the chunk its consumer kept
    em,       \* the steps a sequence has emitted to the loop ranging over it
    tr,       \* the transform sink of PipeSeqThrough
    ob        \* what the last Read found and did, and the Reads counted so far

readerVars == <<kind, prog, p, r, co, crashed, out, sink, last, h, hist>>

vars == <<readerVars, sw, cb, em, tr, ob>>

\* ------------------------------------------------------------- producers

\* A []byte: the window (lo, hi] of the storage behind the producer's last chunk.
NilSlice == [lo |-> 0, hi |-> 0]
SliceLen(d) == d.hi - d.lo

\* A sequence function that has been called and has not yet run any code.
NewProducer ==
    [pc |-> "init",      \* "init", "yield" (suspended in a yield) or "done" (returned)
     i |-> 0,            \* the step, fill or write it is at
     sub |-> "data",     \* whether the pending yield is a chunk's or an error's
     buf |-> <<>>,       \* the storage behind the chunk it last yielded
     n |-> 0,            \* the length of that chunk
     nilc |-> FALSE,     \* that chunk is a nil slice
     err |-> "nil",      \* the error of the pending yield
     active |-> TRUE,    \* the local "active" of SeqFromReader's fast path
     yields |-> 0,       \* calls of yield so far
     refusals |-> 0,     \* calls of yield that returned false
     returned |-> 0,     \* times the function ran to its end (the tests' closeCalled)
     srcReads |-> 0,     \* calls of the source's Read
     starts |-> 0]       \* times the sequence function was called

Yield(q, i, sub, n, err) ==
    [q EXCEPT !.pc = "yield", !.i = i, !.sub = sub, !.n = n, !.err = err,
              !.yields = @ + 1]

Return(q) == [q EXCEPT !.pc = "done", !.returned = @ + 1]

\* kind "seq": for each step { if !yield(step) { break } }; cleanup.
SeqEmit(q, i) ==
    IF i > Len(prog) THEN Return(q)
    ELSE IF prog[i].err = "nil"
         THEN Yield([q EXCEPT !.buf = prog[i].chunk], i, "data", Len(prog[i].chunk), "nil")
         ELSE Yield(q, i, "err", 0, prog[i].err)

SeqResume(q, resp) == IF resp THEN SeqEmit(q, q.i + 1) ELSE Return(q)

\* A fast path that does not look at its flag.
FastFinishAnyway(q, err) ==
    IF err # "nil" THEN Yield(q, q.i, "err", 0, err) ELSE Return(q)

\* kind "fast": the source's WriteTo writes each chunk of prog to the writerFunc
\* and returns at the first write that fails, else with its own result.
FastFinish(q, err) ==
    IF err # "nil" /\ q.active THEN Yield(q, q.i, "err", 0, err) ELSE Return(q)

FastEmit(q, i) ==
    IF i > Len(prog) THEN FastFinish([q EXCEPT !.i = i], "nil")
    ELSE IF prog[i].err # "nil" THEN FastFinish([q EXCEPT !.i = i], prog[i].err)
    ELSE Yield([q EXCEPT !.buf = prog[i].chunk, !.nilc = prog[i].absent],
               i, "data", Len(prog[i].chunk), "nil")

\* A write has failed: the source's WriteTo stops and returns em.srcRet, the
\* error of the write or whatever else it makes of it; or, if em.goesOn, it
\* takes no notice and goes on to its next write.
FastResume(q, resp) ==
    IF q.sub = "err" THEN Return(q)
    ELSE IF resp THEN FastEmit(q, q.i + 1)
    ELSE IF em.goesOn THEN FastEmit([q EXCEPT !.active = FALSE], q.i + 1)
    ELSE FastFinish([q EXCEPT !.active = FALSE], em.srcRet)

\* kind "gen": ReaderWithContent's sequence.  generate writes the chunks of
\* prog to SeqWriter(yield, &active) and returns the error of prog's last
\* step, or nil.
\* A sequence that yields the error of generate whatever the flag says.
GenFinishAnyway(q, err) ==
    IF err # "nil" THEN Yield(q, q.i, "err", 0, err) ELSE Return(q)

\* ReaderWithContent, lines 250-252: err != nil && active.
GenFinish(q, err) ==
    IF err # "nil" /\ q.active THEN Yield(q, q.i, "err", 0, err) ELSE Return(q)

\* generate from its i-th step on: a Write while the flag is false returns
\* ErrSequenceTerminated without a yield, and generate goes on (em.goesOn) or
\* returns em.srcRet.
RECURSIVE GenEmit(_, _)
GenEmit(q, i) ==
    IF i > Len(prog) THEN GenFinish([q EXCEPT !.i = i], "nil")
    ELSE IF prog[i].err # "nil" THEN GenFinish([q EXCEPT !.i = i], prog[i].err)
    ELSE IF q.active
    THEN Yield([q EXCEPT !.buf = prog[i].chunk, !.nilc = prog[i].absent],
               i, "data", Len(prog[i].chunk), "nil")
    ELSE IF em.goesOn THEN GenEmit(q, i + 1)
    ELSE GenFinish([q EXCEPT !.i = i], em.srcRet)

\* seqWriter.Write, lines 203-207, after the yield: a refusal sets the flag to
\* false and the Write fails.
GenResume(q, resp) ==
    IF q.sub = "err" THEN Return(q)
    ELSE IF resp THEN GenEmit(q, q.i + 1)
    ELSE IF em.goesOn THEN GenEmit([q EXCEPT !.active = FALSE], q.i + 1)
    ELSE GenFinish([q EXCEPT !.active = FALSE], em.srcRet)

\* kind "fallback": the loop over src.Read(buf).
SrcFill(i) == IF i > Len(prog) THEN Fill(<<>>, "EOF") ELSE prog[i]

\* A loop that takes io.EOF for a failure.
AfterChunkEOFIsError(q, sig) == IF sig = "nil" THEN "loop" ELSE "error"

\* A loop that returns after a failed fill without an error step.
AfterChunkErrDropped(q, sig) == IF sig = "nil" THEN "loop" ELSE "return"

AfterChunk(q, sig) ==
    IF sig = "nil" THEN "loop"
    ELSE IF sig = "EOF" THEN "return"
    ELSE "error"

\* A loop that drops the bytes a fill delivers together with io.EOF.
RECURSIVE FallbackLoopDropsLast(_, _)
FallbackLoopDropsLast(q, i) ==
    LET f == SrcFill(i)
        n == Len(f.chunk)
        q1 == [q EXCEPT !.srcReads = @ + 1,
                        !.buf = f.chunk \o SubSeq(@, n + 1, Len(@))]
    IN IF f.err = "EOF" THEN Return(q1)
       ELSE IF n > 0 THEN Yield(q1, i, "data", n, "nil")
       ELSE CASE AfterChunk(q1, f.err) = "loop" -> FallbackLoopDropsLast(q1, i + 1)
              [] OTHER -> Yield(q1, i, "err", 0, f.err)

RECURSIVE FallbackLoop(_, _)
FallbackLoop(q, i) ==
    LET f == SrcFill(i)
        n == Len(f.chunk)
        q1 == [q EXCEPT !.srcReads = @ + 1,
                        !.buf = f.chunk \o SubSeq(@, n + 1, Len(@))]
    IN IF n > 0 THEN Yield(q1, i, "data", n, "nil")
       ELSE CASE AfterChunk(q1, f.err) = "loop" -> FallbackLoop(q1, i + 1)
              [] AfterChunk(q1, f.err) = "return" -> Return(q1)
              [] OTHER -> Yield(q1, i, "err", 0, f.err)

FallbackStart(q) ==
    FallbackLoop([q EXCEPT !.buf = [k \in 1..BufSize |-> 0]], 1)

\* A loop that goes on after yield has returned false.
FallbackResumeAnyway(q, resp) ==
    IF q.sub = "err" THEN Return(q)
    ELSE CASE AfterChunk(q, SrcFill(q.i).err) = "loop" -> FallbackLoop(q, q.i + 1)
           [] AfterChunk(q, SrcFill(q.i).err) = "return" -> Return(q)
           [] OTHER -> Yield(q, q.i, "err", 0, SrcFill(q.i).err)

\* SeqFromReader, lines 61-70, after the yield of a chunk or of the error.
FallbackResume(q, resp) ==
    IF q.sub = "err" \/ ~resp THEN Return(q)
    ELSE CASE AfterChunk(q, SrcFill(q.i).err) = "loop" -> FallbackLoop(q, q.i + 1)
           [] AfterChunk(q, SrcFill(q.i).err) = "return" -> Return(q)
           [] OTHER -> Yield(q, q.i, "err", 0, SrcFill(q.i).err)

\* The sequence function is called: a new invocation runs to its first yield
\* or to its return.  The counters go on counting over the reader's life.
PStart(q) ==
    LET q0 == [NewProducer EXCEPT !.starts = q.starts + 1, !.yields = q.yields,
                                  !.refusals = q.refusals, !.returned = q.returned,
                                  !.srcReads = q.srcReads]
    IN CASE kind = "seq" -> SeqEmit(q0, 1)
         [] kind = "fast" -> FastEmit(q0, 1)
         [] kind = "gen" -> GenEmit(q0, 1)
         [] OTHER -> FallbackStart(q0)

\* The pending yield returns resp: the function runs to its next yield or to
\* its return.
PResume(q, resp) ==
    LET q1 == IF resp THEN q ELSE [q EXCEPT !.refusals = @ + 1]
    IN CASE kind = "seq" -> SeqResume(q1, resp)
         [] kind = "fast" -> FastResume(q1, resp)
         [] kind = "gen" -> GenResume(q1, resp)
         [] OTHER -> FallbackResume(q1, resp)

\* The chunk of the pending yield, as the slice the consumer receives.
Chunk(q) == IF q.sub = "err" THEN NilSlice ELSE [lo |-> 0, hi |-> q.n]

\* The bytes a slice holds now.
Bytes(q, d) == SubSeq(q.buf, d.lo + 1, d.hi)

\* --------------------------------------------------------------- iter.Pull2

\* iter.Pull2(seq): a continuation over seq; no code of seq has run yet.
Pull2(seqv, c) ==
    [over |-> seqv, started |-> FALSE, done |-> FALSE,
     pulls |-> c.pulls + 1, nexts |-> c.nexts, stops |-> c.stops]

NoContinuation ==
    [over |-> "none", started |-> FALSE, done |-> TRUE,
     pulls |-> 0, nexts |-> 0, stops |-> 0]

\* After stop, every yield of the sequence function returns false at once.
RECURSIVE RunOut(_)
RunOut(q) == IF q.pc = "yield" THEN RunOut(PResume(q, FALSE)) ELSE q

\* What next() returns once the sequence function has yielded or returned.
CoResult(c, q) ==
    IF q.pc = "done"
    THEN [co |-> [c EXCEPT !.started = TRUE, !.done = TRUE], p |-> q,
          k |-> NilSlice, v |-> "nil", ok |-> FALSE]
    ELSE [co |-> [c EXCEPT !.started = TRUE], p |-> q,
          k |-> Chunk(q), v |-> q.err, ok |-> TRUE]

\* next(): resume the sequence function until its next yield or its return.
CoNext(c, q) ==
    IF c.done
    THEN [co |-> [c EXCEPT !.nexts = @ + 1], p |-> q,
          k |-> NilSlice, v |-> "nil", ok |-> FALSE]
    ELSE IF c.over = "empty"
    THEN [co |-> [c EXCEPT !.nexts = @ + 1, !.started = TRUE, !.done = TRUE],
          p |-> q, k |-> NilSlice, v |-> "nil", ok |-> FALSE]
    ELSE CoResult([c EXCEPT !.nexts = @ + 1],
                  IF c.started THEN PResume(q, TRUE) ELSE PStart(q))

\* stop(): the pending yield returns false and the function runs to its end; a
\* function that was never started is not run at all.
CoStop(c, q) ==
    LET c1 == [c EXCEPT !.stops = @ + 1]
    IN IF c.done THEN [co |-> c1, p |-> q]
       ELSE [co |-> [c1 EXCEPT !.done = TRUE],
             p |-> IF c.over = "orig" /\ c.started THEN RunOut(q) ELSE q]

\* ------------------------------------------------------------------ CopySeq

\* The destination of a WriteTo: a sink whose f-th Write fails (f = 0: none
\* does); for f < 0, a sink whose (-f)-th Write takes one byte less than it is
\* offered and returns no error.
SinkWrite(f, k, b) ==
    IF k = f THEN [n |-> 0, err |-> ErrSink]
    ELSE IF k = -f /\ Len(b) > 0 THEN [n |-> Len(b) - 1, err |-> "nil"]
    ELSE [n |-> Len(b), err |-> "nil"]

\* A return from inside the body of "for data, err := range seq": the pending
\* yield returns false and the sequence function returns.
RangeBreak(q) == RunOut(q)

\* A CopySeq that does not look at the step's error.
StepErrIgnored(q) == "nil"

\* CopySeq, line 153: the error of the step at hand.
StepErr(q) == q.err

RECURSIVE CopyLoop(_, _, _, _, _)
CopyLoop(q, f, k, tot, acc) ==
    IF q.pc = "done" THEN [p |-> q, n |-> tot, err |-> "nil", bytes |-> acc]
    ELSE IF StepErr(q) # "nil"
    THEN [p |-> RangeBreak(q), n |-> tot, err |-> StepErr(q), bytes |-> acc]
    ELSE LET b == Bytes(q, Chunk(q))
             w == SinkWrite(f, k + 1, b)
         IN IF w.err # "nil"
            THEN [p |-> RangeBreak(q), n |-> tot + w.n, err |-> w.err,
                  bytes |-> acc \o SubSeq(b, 1, w.n)]
            ELSE CopyLoop(PResume(q, TRUE), f, k + 1, tot + w.n,
                          acc \o SubSeq(b, 1, w.n))

CopySeq(f, seqv, q) ==
    IF seqv = "empty" THEN [p |-> q, n |-> 0, err |-> "nil", bytes |-> <<>>]
    ELSE CopyLoop(PStart(q), f, 0, 0, <<>>)

\* --------------------------------------------------------------- iterReader

\* ReaderFromSeq(seq): &iterReader{seq: seq}.
NewReader == [seq |-> "orig", next |-> FALSE, close |-> FALSE, err |-> "nil",
              data |-> NilSlice]

\* A Read that creates the continuation and keeps r.seq.
EnsurePulledKeepsSeq(rr, c) ==
    IF rr.seq # "nil"
    THEN [r |-> [rr EXCEPT !.next = TRUE, !.close = TRUE], co |-> Pull2(rr.seq, c)]
    ELSE [r |-> rr, co |-> c]

\* Read, lines 113-117: the first Read creates the continuation.
EnsurePulled(rr, c) ==
    IF rr.seq # "nil"
    THEN [r |-> [rr EXCEPT !.next = TRUE, !.close = TRUE, !.seq = "nil"],
          co |-> Pull2(rr.seq, c)]
    ELSE [r |-> rr, co |-> c]

\* A Read that takes a new chunk whatever is left of the last one.
NeedChunkAlways(rr) == TRUE

\* Read, lines 121-127: take the next chunk when the residual is empty.
NeedChunk(rr) == SliceLen(rr.data) = 0

\* A Read that does not record the end of the sequence.
FetchedNoEOF(rr, x) ==
    [r |-> [rr EXCEPT !.data = x.k, !.err = x.v], co |-> x.co, p |-> x.p]

\* Read, lines 123-126: r.data, r.err, ok = r.next(); !ok records io.EOF.
Fetched(rr, x) ==
    [r |-> [rr EXCEPT !.data = x.k, !.err = IF x.ok THEN x.v ELSE "EOF"],
     co |-> x.co, p |-> x.p]

\* A Read that resumes the continuation with bytes of the last chunk left.
FetchAhead(rr, c, q) == Fetched(rr, CoNext(c, q))

Fetch(rr, c, q) ==
    IF NeedChunk(rr) THEN Fetched(rr, CoNext(c, q))
    ELSE [r |-> rr, co |-> c, p |-> q]

\* A copy that takes no notice of the length of the destination.
CopyAll(n, d) == SliceLen(d)

\* Read, line 128: n := copy(buf, r.data).
CopyLen(n, d) == Min(n, SliceLen(d))

\* Read, line 129: r.data = r.data[n:].
Rest(d, m) == [d EXCEPT !.lo = @ + m]

\* A Read that reports the end of the stream as soon as no bytes are left.
ReadStatusEOF(d, err) ==
    IF SliceLen(d) > 0 THEN "nil" ELSE IF err = "nil" THEN "EOF" ELSE err

\* Read, lines 130-133: the status returned with the bytes.
ReadStatus(d, err) == IF SliceLen(d) > 0 THEN "nil" ELSE err

\* A Read that does not test the recorded status.
TerminalNever(rr) == FALSE

\* Read, line 118: a recorded status ends the call at once.
Terminal(rr) == rr.err # "nil"

\* Read, lines 128-133: copy out of the chunk at hand and return.
ReadCopy(s, n) ==
    LET m == CopyLen(n, s.r.data)
        d == Rest(s.r.data, m)
    IN [r |-> [s.r EXCEPT !.data = d], co |-> s.co, p |-> s.p,
        n |-> m, err |-> ReadStatus(d, s.r.err),
        bytes |-> SubSeq(Bytes(s.p, s.r.data), 1, m)]

\* Read, lines 118-134, on a reader that has its continuation.
ReadPulled(s, q, n) ==
    IF Terminal(s.r)
    THEN [r |-> s.r, co |-> s.co, p |-> q, n |-> 0, err |-> s.r.err, bytes |-> <<>>]
    ELSE ReadCopy(Fetch(s.r, s.co, q), n)

ReadOp(rr, c, q, n) == ReadPulled(EnsurePulled(rr, c), q, n)

\* A Close that records nothing.
ClosedErrKept(err) == err

\* A Close that overwrites the recorded status.
ClosedErrAlways(err) == "EOF"

\* Close, lines 140-142: the status a closed reader keeps.
ClosedErr(err) == IF err = "nil" THEN "EOF" ELSE err

\* A Close that keeps the release function.
ReleasedNot(rr) == rr

\* Close, line 139: r.close = nil.
Released(rr) == [rr EXCEPT !.close = FALSE]

\* Close, lines 139-144, after r.close() has returned.
Closed(rr, x) ==
    [r |-> [Released(rr) EXCEPT !.err = ClosedErr(@)], co |-> x.co, p |-> x.p,
     err |-> "nil"]

\* A Close that does not call the release function.
CloseOpNoStop(rr, c, q) ==
    IF rr.close THEN Closed(rr, [co |-> c, p |-> q])
    ELSE [r |-> rr, co |-> c, p |-> q, err |-> "nil"]

CloseOp(rr, c, q) ==
    IF rr.close THEN Closed(rr, CoStop(c, q))
    ELSE [r |-> rr, co |-> c, p |-> q, err |-> "nil"]

\* A WriteTo that leaves r.seq as it was.
SeqKept == "orig"

\* WriteTo, line 106: what r.seq is after the direct drive.
SeqAfterWriteTo == "empty"

\* WriteTo: the direct drive while r.seq is set; otherwise io.Copy(w, r), which
\* finds that r is an io.WriterTo and calls r.WriteTo(w) again, without end:
\* the stack overflows and the process dies.
\* WriteTo, lines 104-107, after CopySeq has returned x.
DirectDrive(rr, x) ==
    [r |-> [rr EXCEPT !.seq = SeqAfterWriteTo], p |-> x.p, n |-> x.n,
     err |-> x.err, bytes |-> x.bytes, crash |-> FALSE]

WriteToOp(rr, q, f) ==
    IF rr.seq # "nil" THEN DirectDrive(rr, CopySeq(f, rr.seq, q))
    ELSE [r |-> rr, p |-> q, n |-> 0, err |-> "overflow", bytes |-> <<>>,
          crash |-> TRUE]

\* ---------------------------------------------------------------- seqWriter

\* SeqWriter(yield, active): a nil active becomes a new flag set to true.
SeqWriter(active) ==
    [active |-> active,   \* *w.active
     writes |-> 0,        \* Write calls so far
     yields |-> 0,        \* calls of the step function so far
     got |-> <<>>,        \* the chunks the step function was called with
     refused |-> FALSE,   \* the step function has returned false
     late |-> FALSE,      \* the step function was called after it had returned false
     arg |-> <<>>,        \* the bytes the last Write was called with
     ans |-> TRUE,        \* what the step function returned when it was last called
     ret |-> [n |-> 0, err |-> "nil"]]   \* what the last Write returned

\* A Write that does not test the flag.
InactiveNever(active) == FALSE

\* Write, line 200: the flag is tested before anything else.
Inactive(active) == ~active

\* Write, line 203: w.yield(slices.Clip(buf), nil), with the step function's answer.
CallYield(w, buf, accept) ==
    [w EXCEPT !.yields = @ + 1, !.got = Append(@, buf), !.ans = accept,
              !.late = @ \/ w.refused, !.refused = @ \/ ~accept]

\* A Write that leaves the flag as it is when the step function refuses.
FlagKept(active) == active

\* Write, line 204: *w.active = false.
FlagAfterRefusal(active) == FALSE

\* seqWriter.Write(buf); accept is what the step function returns if it is called.
WriteOp(w, buf, accept) ==
    LET w0 == [w EXCEPT !.writes = @ + 1, !.arg = buf]
    IN IF Inactive(w0.active)
       THEN [w0 EXCEPT !.ret = [n |-> 0, err |-> "ErrSequenceTerminated"]]
       ELSE IF ~accept
       THEN [CallYield(w0, buf, accept) EXCEPT
                !.active = FlagAfterRefusal(@),
                !.ret = [n |-> 0, err |-> "ErrSequenceTerminated"]]
       ELSE [CallYield(w0, buf, accept) EXCEPT !.ret = [n |-> Len(buf), err |-> "nil"]]

\* ------------------------------------------------- the caller's buffer

\* The bytes a consumer appends and the bytes a caller overwrites its buffer with.
AppendedByte == 8
OverwrittenByte == 9

\* buf := []byte("foobar"): the buffer of the generator that writes to the sink.
CallerBuf == [i \in 1..BufCap |-> i]

\* buf[:k], a slice of the caller's buffer: its array, length and capacity.
Prefix(k) == [arr |-> "buf", len |-> k, cap |-> BufCap]

\* A sink that hands the step function a copy of the bytes (slices.Clone).
Cloned(s) == [s EXCEPT !.arr = "new", !.cap = s.len]

\* A sink that hands the step function the slice as it got it.
Unclipped(s) == s

\* Write, line 203: slices.Clip(buf) is buf[:len(buf):len(buf)], the same
\* array with the capacity cut down to the length.
Clip(s) == [s EXCEPT !.cap = s.len]

\* append(data, 'X') by the consumer: within the capacity the byte is stored in
\* the array behind data, beyond it a new array is allocated.
AppendTo(mem, d) ==
    IF d.arr = "buf" /\ d.len < d.cap
    THEN [mem EXCEPT ![d.len + 1] = AppendedByte]
    ELSE mem

NoChunk == [set |-> FALSE, arr |-> "none", len |-> 0, cap |-> 0,
            seen |-> <<>>, own |-> <<>>]

\* The chunk d as the step function receives and keeps it: the bytes it shows
\* during the step, and its own storage if it has one.
Kept(mem, d) ==
    [set |-> TRUE, arr |-> d.arr, len |-> d.len, cap |-> d.cap,
     seen |-> SubSeq(mem, 1, d.len),
     own |-> IF d.arr = "new" THEN SubSeq(mem, 1, d.len) ELSE <<>>]

\* The bytes a kept chunk shows now.
View(b) ==
    IF b.held.arr = "buf" THEN SubSeq(b.mem, 1, b.held.len) ELSE b.held.own

NoBuffer == [mem |-> <<>>, held |-> NoChunk, k |-> 0, appended |-> FALSE,
             overwritten |-> FALSE]

NewBuffer == [NoBuffer EXCEPT !.mem = CallerBuf]

\* The step function, called with the chunk d: it keeps d and, if app, appends
\* a byte to it.
StepFunc(b, d, k, app) ==
    [b EXCEPT !.held = Kept(b.mem, d), !.k = k,
              !.mem = IF app THEN AppendTo(@, d) ELSE @,
              !.appended = app]

\* ------------------------------------------------ a loop over a sequence

\* for data, err := range seq { ... }: the steps the loop body has received,
\* and which one it answered by leaving the loop.
NoLoop ==
    [started |-> FALSE,   \* the sequence function has been called
     steps |-> <<>>,      \* the steps the body has received, in order
     refusedAt |-> 0,     \* the step at which the body left the loop (0: none)
     srcRet |-> "ErrSequenceTerminated",   \* see FastResume
     goesOn |-> FALSE]    \* see FastResume

\* The step of the pending yield, as the loop body receives it.
StepOf(q) ==
    [chunk |-> Bytes(q, Chunk(q)), absent |-> (q.sub = "err" \/ q.nilc),
     err |-> q.err]

\* The body runs on a step and goes on (accept) or leaves the loop.
Logged(e, step, accept) ==
    [e EXCEPT !.steps = Append(@, step),
              !.refusedAt = IF ~accept /\ @ = 0 THEN Len(e.steps) + 1 ELSE @]

Received(e, q, accept) == Logged(e, StepOf(q), accept)

\* ---------------------------------------------------------- PipeSeqThrough

\* The bytes a transform writes when it is closed (as base64's padding), and
\* the failures of a transform's Write and Close.
Trailer == <<9>>
ErrTransform == "ET"
ErrClose == "EC"

\* What the transforms do with the bytes written to them:
\*   "pass"    Write hands them on to the sink at once, Close writes nothing
\*   "trailer" as "pass", and Close writes Trailer
\*   "buffer"  Write keeps them, Close writes all of them in one Write
Modes == {"pass", "trailer", "buffer"}

\* The Write of a transform that fails for reasons of its own (0: none does).
FailAts == {0, 1, 2}

\* w := f(SeqWriter(yield, &active)), and where send(w, seq) has got to.
NoTransform ==
    [pc |-> "init",       \* "init", "write" (about to write pend to the sequence
                          \* sink), "errstep" (about to yield ret) or "done"
     mode |-> "pass",
     failAt |-> 0,        \* the Write of the transform that fails
     closeErr |-> "nil",  \* what its Close returns when its last write went well
     swallow |-> FALSE,   \* it ignores the errors of the sink it writes to
     pend |-> <<>>,       \* the bytes it is about to write to the sequence sink
     at |-> "none",       \* whether it does so in its Write ("chunk") or its Close
     writes |-> 0,        \* calls of its Write
     wrote |-> <<>>,      \* the chunks its Write was called with
     closes |-> 0,        \* calls of its Close
     held |-> <<>>,       \* the bytes it holds back
     ret |-> "nil"]       \* what send returned

\* A composer that yields the error whatever the flag says.
FinishAnyway(t, q, err, active) ==
    [tr |-> [t EXCEPT !.ret = err, !.pc = IF err # "nil" THEN "errstep" ELSE "done"],
     p |-> q]

\* PipeSeqThrough, lines 226-228: send has returned err.
Finish(t, q, err, active) ==
    [tr |-> [t EXCEPT !.ret = err,
                      !.pc = IF err # "nil" /\ active THEN "errstep" ELSE "done"],
     p |-> q]

\* The transform's Close is about to write b to the sequence sink.
Flush(t, q, b) ==
    [tr |-> [t EXCEPT !.pc = "write", !.pend = b, !.at = "close"], p |-> q]

\* A send that returns without closing the transform.
CloseSkipped(t, q, active) == Finish(t, q, "nil", active)

\* send, line 222: w.Close().
CloseTransform(t, q, active) ==
    IF t.mode = "trailer" THEN Flush([t EXCEPT !.closes = @ + 1], q, Trailer)
    ELSE IF t.mode = "buffer" /\ t.held # <<>>
    THEN Flush([t EXCEPT !.closes = @ + 1], q, t.held)
    ELSE Finish([t EXCEPT !.closes = @ + 1], q, t.closeErr, active)

\* The transform's Write has been called with the chunk b.
Written(t, b) == [t EXCEPT !.writes = @ + 1, !.wrote = Append(@, b)]

\* A send that closes the transform when the input has failed, too.
RECURSIVE SendClosesAnyway(_, _, _)
SendClosesAnyway(t, q, active) ==
    IF q.pc = "done" THEN CloseTransform(t, q, active)
    ELSE IF StepErr(q) # "nil" THEN CloseTransform(t, RangeBreak(q), active)
    ELSE IF t.failAt = t.writes + 1
    THEN Finish(Written(t, Bytes(q, Chunk(q))), RangeBreak(q), ErrTransform, active)
    ELSE IF t.mode = "buffer"
    THEN SendClosesAnyway(
             [Written(t, Bytes(q, Chunk(q))) EXCEPT !.held = @ \o Bytes(q, Chunk(q))],
             PResume(q, TRUE), active)
    ELSE [tr |-> [Written(t, Bytes(q, Chunk(q))) EXCEPT
                     !.pc = "write", !.pend = Bytes(q, Chunk(q)), !.at = "chunk"],
          p |-> q]

\* send, lines 219-222: CopySeq(w, seq) with the input at the step of q, up
\* to the next write to the sequence sink, or to the return of send.
RECURSIVE Send(_, _, _)
Send(t, q, active) ==
    IF q.pc = "done" THEN CloseTransform(t, q, active)
    ELSE IF StepErr(q) # "nil" THEN Finish(t, RangeBreak(q), StepErr(q), active)
    ELSE IF t.failAt = t.writes + 1
    THEN Finish(Written(t, Bytes(q, Chunk(q))), RangeBreak(q), ErrTransform, active)
    ELSE IF t.mode = "buffer"
    THEN Send([Written(t, Bytes(q, Chunk(q))) EXCEPT !.held = @ \o Bytes(q, Chunk(q))],
              PResume(q, TRUE), active)
    ELSE [tr |-> [Written(t, Bytes(q, Chunk(q))) EXCEPT
                     !.pc = "write", !.pend = Bytes(q, Chunk(q)), !.at = "chunk"],
          p |-> q]

\* A transform that keeps every error of the sink to itself.
PassedNever(t, err) == "nil"

\* What the transform makes of the error of its write to the sequence sink.
Passed(t, err) == IF t.swallow THEN "nil" ELSE err

\* The write to the sequence sink has returned err: the transform's Write or
\* Close returns, and send goes on.
AfterWrite(t, q, err, active) ==
    IF t.at = "chunk"
    THEN IF Passed(t, err) # "nil"
         THEN Finish(t, RangeBreak(q), Passed(t, err), active)
         ELSE Send(t, PResume(q, TRUE), active)
    ELSE Finish(t, q, IF Passed(t, err) # "nil" THEN Passed(t, err) ELSE t.closeErr,
                active)

\* -------------------------------------------------------------- PipeThrough

\* PipeThrough(src, f, bufSize): ReaderFromSeq over PipeSeqThrough over
\* SeqFromReader(src, bufSize).  The composed sequence is the transform t, the
\* input sequence at q and the sequence sink w; it is suspended in a yield
\* when t.pc is "write" (the sink is about to hand t.pend to the step
\* function) or "errstep".
Chain(y, w) == [tr |-> y.tr, p |-> y.p, sw |-> w]

\* The write to the sink has been made and has left it as w.
ChainWritten(x, w) == Chain(AfterWrite(x.tr, x.p, w.ret.err, w.active), w)

\* seqWriter.Write, lines 200-202: a write to a sink whose flag is false
\* fails without a yield, and the transform and send go on from there.
RECURSIVE ChainRun(_)
ChainRun(x) ==
    IF x.tr.pc = "write" /\ Inactive(x.sw.active)
    THEN ChainRun(ChainWritten(x, WriteOp(x.sw, x.tr.pend, FALSE)))
    ELSE x

\* The composed sequence is called and runs to its first yield or its return.
ChainStart(x) == ChainRun(Chain(Send(x.tr, PStart(x.p), x.sw.active), x.sw))

\* The pending yield returns resp and the composed sequence runs to its next
\* yield or to its return; line 227 is the yield of the error step.
ChainResume(x, resp) ==
    IF x.tr.pc = "write"
    THEN ChainRun(ChainWritten(x, WriteOp(x.sw, x.tr.pend, resp)))
    ELSE [x EXCEPT !.tr.pc = "done",
                   !.sw.yields = @ + 1,
                   !.sw.late = @ \/ x.sw.refused,
                   !.sw.refused = @ \/ ~resp]

\* After stop, every yield of the composed sequence returns false at once.
RECURSIVE ChainRunOut(_)
ChainRunOut(x) ==
    IF x.tr.pc \in {"write", "errstep"} THEN ChainRunOut(ChainResume(x, FALSE)) ELSE x

\* What next() returns once the composed sequence has yielded or returned.
ChainResult(c, x) ==
    IF x.tr.pc = "write"
    THEN [co |-> [c EXCEPT !.started = TRUE], x |-> x, p |-> x.p,
          k |-> [lo |-> 0, hi |-> Len(x.tr.pend)], v |-> "nil", ok |-> TRUE]
    ELSE IF x.tr.pc = "errstep"
    THEN [co |-> [c EXCEPT !.started = TRUE], x |-> x, p |-> x.p,
          k |-> NilSlice, v |-> x.tr.ret, ok |-> TRUE]
    ELSE [co |-> [c EXCEPT !.started = TRUE, !.done = TRUE], x |-> x, p |-> x.p,
          k |-> NilSlice, v |-> "nil", ok |-> FALSE]

\* next() of the continuation over the composed sequence.
ChainNext(c, x) ==
    IF c.done
    THEN [co |-> [c EXCEPT !.nexts = @ + 1], x |-> x, p |-> x.p,
          k |-> NilSlice, v |-> "nil", ok |-> FALSE]
    ELSE ChainResult([c EXCEPT !.nexts = @ + 1],
                     IF c.started THEN ChainResume(x, TRUE) ELSE ChainStart(x))

\* stop() of the continuation over the composed sequence.
ChainStop(c, x) ==
    [co |-> [c EXCEPT !.stops = @ + 1, !.done = TRUE],
     x |-> IF c.started /\ ~c.done THEN ChainRunOut(x) ELSE x,
     p |-> x.p]

\* Read, lines 121-127, over the composed sequence.
ChainFetched(rr, y) == [r |-> Fetched(rr, y).r, co |-> y.co, x |-> y.x]

ChainFetch(s, x) ==
    IF NeedChunk(s.r) THEN ChainFetched(s.r, ChainNext(s.co, x))
    ELSE [r |-> s.r, co |-> s.co, x |-> x]

\* Read, lines 128-133: the chunk at hand is what the sink was given.
ChainCopy(f, n) ==
    [x |-> f.x,
     res |-> ReadCopy([r |-> f.r, co |-> f.co, p |-> [buf |-> f.x.tr.pend]], n)]

\* Read on the reader PipeThrough returns.
ChainRead(s, x, n) ==
    IF Terminal(s.r)
    THEN [x |-> x,
          res |-> [r |-> s.r, co |-> s.co, n |-> 0, err |-> s.r.err, bytes |-> <<>>]]
    ELSE ChainCopy(ChainFetch(s, x), n)

\* Close on the reader PipeThrough returns.
ChainClosed(rr, y) == [r |-> Closed(rr, y).r, co |-> y.co, x |-> y.x]

ChainClose(rr, c, x) ==
    IF rr.close THEN ChainClosed(rr, ChainStop(c, x))
    ELSE [r |-> rr, co |-> c, x |-> x]

\* ----------------------------------------------------------------- history

NoCall == [op |-> "none", n |-> 0, err |-> "nil"]

Call(op, n, err) == [op |-> op, n |-> n, err |-> err]

NewHistory ==
    [ops |-> {},         \* the methods called on this reader
     term |-> "nil",     \* the first non-nil status a Read returned
     fail |-> "nil",     \* the first genuine failure a Read or WriteTo reported
     failBy |-> "none",  \* the method that reported it
     first |-> "none",   \* which of Read and WriteTo was called first
     reread |-> FALSE,   \* a Read was called after a Read had returned a status
     reclosed |-> FALSE, \* Close was called after Close had been called
     consumed |-> 0]     \* the steps whose chunk the Reads have returned to the end

NoTransfer == [set |-> FALSE, bytes |-> <<>>, n |-> 0, err |-> "nil"]

Genuine(err) == err \notin {"nil", "EOF"}

Called(hh, op, err) ==
    [hh EXCEPT !.ops = @ \cup {op},
               !.term = IF @ = "nil" /\ op = "Read" THEN err ELSE @,
               !.fail = IF @ = "nil" /\ Genuine(err) THEN err ELSE @,
               !.failBy = IF hh.fail = "nil" /\ Genuine(err) THEN op ELSE @,
               !.first = IF @ = "none" /\ op \in {"Read", "WriteTo"} THEN op ELSE @,
               !.reread = @ \/ (op = "Read" /\ hh.term # "nil"),
               !.reclosed = @ \/ (op = "Close" /\ "Close" \in hh.ops)]

\* A Read that found the residual d and the producer at q, and left them as x
\* has them, has used up a step if it leaves no residual and either found one
\* or was given a new step.
Consumed(hh, d, q, x) ==
    IF SliceLen(x.r.data) = 0 /\ (SliceLen(d) > 0 \/ x.p.yields > q.yields)
    THEN [hh EXCEPT !.consumed = @ + 1]
    ELSE hh

\* What a Read is seen to do, for the specification of observed Reads.
NoObs ==
    [req |-> 0,          \* len(buf) of the last Read
     had |-> 0,          \* len(r.data) when it was called
     before |-> "nil",   \* r.err when it was called
     fetched |-> FALSE,  \* it called r.next
     got |-> 0,          \* the length of the chunk it copied from
     reads |-> 0,        \* Reads with len(buf) >= 1 up to the first that returned a status
     empties |-> 0]      \* empty chunks the Reads have taken

\* The Read of n bytes that found the reader as rr over the continuation c and
\* whose effect and results are x.
Observed(o, rr, c, x, n) ==
    [req |-> n, had |-> SliceLen(rr.data), before |-> rr.err,
     fetched |-> x.co.nexts > c.nexts,
     got |-> x.n + SliceLen(x.r.data),
     reads |-> IF n >= 1 /\ h.term = "nil" THEN o.reads + 1 ELSE o.reads,
     empties |-> IF x.co.nexts > c.nexts /\ x.r.err = "nil"
                    /\ x.n + SliceLen(x.r.data) = 0
                 THEN o.empties + 1 ELSE o.empties]

\* ------------------------------------------------------------------ actions

Init ==
    /\ kind \in Kinds
    /\ prog \in Progs(kind)
    /\ p = NewProducer
    /\ r = NewReader
    /\ co = NoContinuation
    /\ crashed = FALSE
    /\ out = <<>>
    /\ sink = <<>>
    /\ last = NoCall
    /\ h = NewHistory
    /\ hist = [wt |-> NoTransfer, rd |-> NoTransfer]
    /\ sw = SeqWriter(TRUE)
    /\ cb = NoBuffer
    /\ ob = NoObs
    /\ em = NoLoop
    /\ tr = NoTransform

\* The state after a Read whose effect and results are x.
ReadStep(x) ==
    /\ r' = x.r
    /\ co' = x.co
    /\ p' = x.p
    /\ out' = out \o x.bytes
    /\ last' = Call("Read", x.n, x.err)
    /\ h' = Consumed(Called(h, "Read", x.err), r.data, p, x)
    /\ hist' = IF h.ops \subseteq {"Read"} /\ h.term = "nil" /\ x.err # "nil"
               THEN [hist EXCEPT !.rd = [set |-> TRUE, bytes |-> out \o x.bytes,
                                         n |-> Len(out \o x.bytes), err |-> x.err]]
               ELSE hist

\* r.Read(buf) with len(buf) = n.
Read(n) ==
    /\ ~crashed
    /\ ReadStep(ReadOp(r, co, p, n))
    /\ UNCHANGED <<kind, prog, crashed, sink, sw, cb, em, tr, ob>>

\* The state after a Close whose effect and result are x.
CloseStep(x) ==
    /\ r' = x.r
    /\ co' = x.co
    /\ p' = x.p
    /\ last' = Call("Close", 0, x.err)
    /\ h' = Called(h, "Close", x.err)

\* r.Close().
Close ==
    /\ ~crashed
    /\ CloseStep(CloseOp(r, co, p))
    /\ UNCHANGED <<kind, prog, crashed, out, sink, hist, sw, cb, em, tr, ob>>

\* The state after a WriteTo whose effect and results are x.
WriteToStep(x, f) ==
    /\ r' = x.r
    /\ p' = x.p
    /\ crashed' = x.crash
    /\ sink' = sink \o x.bytes
    /\ last' = Call("WriteTo", x.n, x.err)
    /\ h' = Called(h, "WriteTo", x.err)
    /\ hist' = IF h.ops = {} /\ f = 0
               THEN [hist EXCEPT !.wt = [set |-> TRUE, bytes |-> x.bytes,
                                         n |-> x.n, err |-> x.err]]
               ELSE hist

\* r.WriteTo(w), w a sink whose f-th Write fails (f = 0: none does).
WriteTo(f) ==
    /\ ~crashed
    /\ WriteToStep(WriteToOp(r, p, f), f)
    /\ UNCHANGED <<kind, prog, co, out, sw, cb, em, tr, ob>>

\* ReaderFromSeq(seq) once more over the same sequence function, as the tests
\* do with their input; a source of SeqFromReader is consumed by its first use.
ReaderFromSeq ==
    /\ ~crashed
    /\ kind = "seq"
    /\ h.ops # {}
    /\ p' = NewProducer
    /\ r' = NewReader
    /\ co' = NoContinuation
    /\ out' = <<>>
    /\ sink' = <<>>
    /\ last' = NoCall
    /\ h' = NewHistory
    /\ UNCHANGED <<kind, prog, crashed, hist, sw, cb, em, tr, ob>>

Next ==
    \/ \E n \in 0..MaxBuf : Read(n)
    \/ Close
    \/ \E f \in 0..MaxSteps : WriteTo(f)
    \/ ReaderFromSeq

Spec == Init /\ [][Next]_vars

\* A sequence sink on its own: a generator writes chunks to a seqWriter whose
\* step function accepts or refuses each; the caller may hand in a flag that
\* is already false.
InitW ==
    /\ kind = "seq"
    /\ prog = <<>>
    /\ p = NewProducer
    /\ r = NewReader
    /\ co = NoContinuation
    /\ crashed = FALSE
    /\ out = <<>>
    /\ sink = <<>>
    /\ last = NoCall
    /\ h = NewHistory
    /\ hist = [wt |-> NoTransfer, rd |-> NoTransfer]
    /\ sw \in {SeqWriter(a) : a \in BOOLEAN}
    /\ cb = NoBuffer
    /\ ob = NoObs
    /\ em = NoLoop
    /\ tr = NoTransform

\* w.Write(buf).
SeqWrite(buf, accept) ==
    /\ sw.writes < MaxWrites
    /\ sw' = WriteOp(sw, buf, accept)
    /\ UNCHANGED <<readerVars, cb, em, tr, ob>>

NextW == \E buf \in Chunks, accept \in BOOLEAN : SeqWrite(buf, accept)

SpecW == InitW /\ [][NextW]_vars

\* A generator that writes prefixes of one buffer to a sequence sink and
\* overwrites the buffer between the writes; the consumer keeps the chunk it
\* was last handed and may append to it.
InitB ==
    /\ kind = "seq"
    /\ prog = <<>>
    /\ p = NewProducer
    /\ r = NewReader
    /\ co = NoContinuation
    /\ crashed = FALSE
    /\ out = <<>>
    /\ sink = <<>>
    /\ last = NoCall
    /\ h = NewHistory
    /\ hist = [wt |-> NoTransfer, rd |-> NoTransfer]
    /\ sw = SeqWriter(TRUE)
    /\ cb = NewBuffer
    /\ ob = NoObs
    /\ em = NoLoop
    /\ tr = NoTransform

\* w.Write(buf[:k]); the step function, if it is called, appends to its chunk
\* if app and returns accept.
BufWrite(k, accept, app) ==
    /\ sw.writes < MaxBufWrites
    /\ sw' = WriteOp(sw, SubSeq(cb.mem, 1, k), accept)
    /\ cb' = IF Inactive(sw.active) THEN cb
             ELSE StepFunc(cb, Clip(Prefix(k)), k, app)
    /\ UNCHANGED <<readerVars, em, tr, ob>>

\* The generator stores a byte at buf[i - 1] after a Write has returned.
Overwrite(i) ==
    /\ sw.writes > 0
    /\ cb.mem[i] # OverwrittenByte
    /\ cb' = [cb EXCEPT !.mem[i] = OverwrittenByte, !.overwritten = TRUE]
    /\ UNCHANGED <<readerVars, sw, em, tr, ob>>

NextB ==
    \/ \E k \in 0..BufCap, accept \in BOOLEAN, app \in BOOLEAN :
           BufWrite(k, accept, app)
    \/ \E i \in 1..BufCap : Overwrite(i)

SpecB == InitB /\ [][NextB]_vars

\* A loop ranging over SeqFromReader(src, bufSize), as TestSeqFromReader's,
\* whose body may leave the loop at any step.
InitR ==
    /\ kind \in {"fallback", "fast"}
    /\ prog \in IF kind = "fast" THEN WriteProgs ELSE FillProgs
    /\ p = NewProducer
    /\ r = NewReader
    /\ co = NoContinuation
    /\ crashed = FALSE
    /\ out = <<>>
    /\ sink = <<>>
    /\ last = NoCall
    /\ h = NewHistory
    /\ hist = [wt |-> NoTransfer, rd |-> NoTransfer]
    /\ sw = SeqWriter(TRUE)
    /\ cb = NoBuffer
    /\ ob = NoObs
    /\ em \in {[NoLoop EXCEPT !.srcRet = e] :
                  e \in IF kind = "fast" THEN SrcRets ELSE {NoLoop.srcRet}}
    /\ tr = NoTransform

\* The range statement calls the sequence function, which runs to its first
\* yield or to its return.
RangeStart ==
    /\ ~em.started
    /\ p' = PStart(p)
    /\ em' = [em EXCEPT !.started = TRUE]
    /\ UNCHANGED <<kind, prog, r, co, crashed, out, sink, last, h, hist, sw, cb, tr, ob>>

\* The loop body runs on the pending step; the sequence function then runs to
\* its next yield or to its return.
RangeBody(accept) ==
    /\ em.started
    /\ p.pc = "yield"
    /\ em' = Received(em, p, accept)
    /\ p' = PResume(p, accept)
    /\ UNCHANGED <<kind, prog, r, co, crashed, out, sink, last, h, hist, sw, cb, tr, ob>>

NextR ==
    \/ RangeStart
    \/ \E accept \in BOOLEAN : RangeBody(accept)

SpecR == InitR /\ [][NextR]_vars

\* A loop ranging over PipeSeqThrough(seq, f): seq emits the steps of prog, f
\* wraps the sequence sink in one of the transforms, and the loop body may
\* leave the loop at any step.
InitP ==
    /\ kind = "seq"
    /\ prog \in StepProgs
    /\ p = NewProducer
    /\ r = NewReader
    /\ co = NoContinuation
    /\ crashed = FALSE
    /\ out = <<>>
    /\ sink = <<>>
    /\ last = NoCall
    /\ h = NewHistory
    /\ hist = [wt |-> NoTransfer, rd |-> NoTransfer]
    /\ sw = SeqWriter(TRUE)
    /\ cb = NoBuffer
    /\ ob = NoObs
    /\ em = NoLoop
    /\ tr \in {[NoTransform EXCEPT !.mode = m, !.failAt = f, !.closeErr = c,
                                   !.swallow = s] :
                  m \in Modes, f \in FailAts, c \in {"nil", ErrClose},
                  s \in BOOLEAN}

\* The state after the composed sequence has run on to x.
PipeStep(x) ==
    /\ tr' = x.tr
    /\ p' = x.p

\* The range statement calls the composed sequence, which runs to its first
\* write to the sequence sink, to its error step, or to its return.
PipeStart ==
    /\ tr.pc = "init"
    /\ PipeStep(Send(tr, PStart(p), sw.active))
    /\ em' = [em EXCEPT !.started = TRUE]
    /\ UNCHANGED <<kind, prog, r, co, crashed, out, sink, last, h, hist, sw, cb, ob>>

\* The state after the write to the sequence sink that left it as w.
PipeWritten(w, accept) ==
    /\ sw' = w
    /\ em' = IF w.yields = sw.yields THEN em
             ELSE Logged(em, ChunkStep(tr.pend), accept)
    /\ PipeStep(AfterWrite(tr, p, w.ret.err, w.active))

\* The transform writes to the sequence sink; the loop body, if the step
\* reaches it, goes on (accept) or leaves the loop; the composed sequence
\* then runs to its next write, to its error step, or to its return.
PipeWrite(accept) ==
    /\ tr.pc = "write"
    /\ PipeWritten(WriteOp(sw, tr.pend, accept), accept)
    /\ UNCHANGED <<kind, prog, r, co, crashed, out, sink, last, h, hist, cb, ob>>

\* PipeSeqThrough, line 227: yield(nil, err); the composed sequence returns.
PipeErrStep(accept) ==
    /\ tr.pc = "errstep"
    /\ em' = Logged(em, ErrStep(tr.ret), accept)
    /\ tr' = [tr EXCEPT !.pc = "done"]
    /\ UNCHANGED <<kind, prog, p, r, co, crashed, out, sink, last, h, hist, sw, cb, ob>>

NextP ==
    \/ PipeStart
    \/ \E accept \in BOOLEAN : PipeWrite(accept)
    \/ \E accept \in BOOLEAN : PipeErrStep(accept)

SpecP == InitP /\ [][NextP]_vars

\* SeqFromReader's fast path on its own, over a source that may take no
\* notice of a failed write: a range loop over the sequence.  The yield
\* function of a range loop panics when it is called after the body has left
\* the loop, and the process dies.
InitG ==
    /\ kind = "fast"
    /\ prog \in WriteProgs
    /\ p = NewProducer
    /\ r = NewReader
    /\ co = NoContinuation
    /\ crashed = FALSE
    /\ out = <<>>
    /\ sink = <<>>
    /\ last = NoCall
    /\ h = NewHistory
    /\ hist = [wt |-> NoTransfer, rd |-> NoTransfer]
    /\ sw = SeqWriter(TRUE)
    /\ cb = NoBuffer
    /\ ob = NoObs
    /\ em \in {[NoLoop EXCEPT !.srcRet = e] : e \in SrcRets}
                  \cup {[NoLoop EXCEPT !.goesOn = TRUE]}
    /\ tr = NoTransform

\* The loop body runs on the pending step, while it has not left the loop.
DriveBody(accept) ==
    /\ em.refusedAt = 0
    /\ RangeBody(accept)

\* The writerFunc calls yield after yield has returned false.
LateYield ==
    /\ em.started
    /\ em.refusedAt # 0
    /\ p.pc = "yield"
    /\ ~crashed
    /\ crashed' = TRUE
    /\ UNCHANGED <<kind, prog, p, r, co, out, sink, last, h, hist, sw, cb, em, tr, ob>>

NextG ==
    \/ RangeStart
    \/ \E accept \in BOOLEAN : DriveBody(accept)
    \/ LateYield

SpecG == InitG /\ [][NextG]_vars

\* A reader built by PipeThrough: Read and Close on it.  The source is a plain
\* io.Reader or an io.WriterTo that returns from WriteTo when a write fails.
InitT ==
    /\ kind \in {"fallback", "fast"}
    /\ prog \in Progs(kind)
    /\ p = NewProducer
    /\ r = NewReader
    /\ co = NoContinuation
    /\ crashed = FALSE
    /\ out = <<>>
    /\ sink = <<>>
    /\ last = NoCall
    /\ h = NewHistory
    /\ hist = [wt |-> NoTransfer, rd |-> NoTransfer]
    /\ sw = SeqWriter(TRUE)
    /\ cb = NoBuffer
    /\ ob = NoObs
    /\ em \in {[NoLoop EXCEPT !.srcRet = e] :
                  e \in IF kind = "fast" THEN SrcRets ELSE {NoLoop.srcRet}}
    /\ tr \in {[NoTransform EXCEPT !.mode = m, !.failAt = f, !.swallow = s] :
                  m \in Modes, f \in FailAts, s \in BOOLEAN}

\* The state after a Read on the piped reader whose effect and results are y.
PipedReadStep(y) ==
    /\ r' = y.res.r
    /\ co' = y.res.co
    /\ tr' = y.x.tr
    /\ p' = y.x.p
    /\ sw' = y.x.sw
    /\ out' = out \o y.res.bytes
    /\ last' = Call("Read", y.res.n, y.res.err)
    /\ h' = Called(h, "Read", y.res.err)

\* Read(buf) with len(buf) = n on the piped reader.
PipedRead(n) ==
    /\ PipedReadStep(ChainRead(EnsurePulled(r, co), Chain([tr |-> tr, p |-> p], sw), n))
    /\ UNCHANGED <<kind, prog, crashed, sink, hist, cb, em, ob>>

\* The state after a Close on the piped reader whose effect is y.
PipedCloseStep(y) ==
    /\ r' = y.r
    /\ co' = y.co
    /\ tr' = y.x.tr
    /\ p' = y.x.p
    /\ sw' = y.x.sw
    /\ last' = Call("Close", 0, "nil")
    /\ h' = Called(h, "Close", "nil")

\* Close on the piped reader.
PipedClose ==
    /\ PipedCloseStep(ChainClose(r, co, Chain([tr |-> tr, p |-> p], sw)))
    /\ UNCHANGED <<kind, prog, crashed, out, sink, hist, cb, em, ob>>

NextT ==
    \/ \E n \in 0..MaxBuf : PipedRead(n)
    \/ PipedClose

SpecT == InitT /\ [][NextT]_vars

\* A reader whose Reads are observed: Read and Close on a reader over a
\* sequence emitting the steps of prog, or on ReaderWithContent(generate)
\* where generate writes the chunks of prog, returns its error, and after a
\* failed Write either returns em.srcRet or goes on writing.
InitQ ==
    /\ kind \in {"seq", "gen"}
    /\ prog \in StepProgs
    /\ p = NewProducer
    /\ r = NewReader
    /\ co = NoContinuation
    /\ crashed = FALSE
    /\ out = <<>>
    /\ sink = <<>>
    /\ last = NoCall
    /\ h = NewHistory
    /\ hist = [wt |-> NoTransfer, rd |-> NoTransfer]
    /\ sw = SeqWriter(TRUE)
    /\ cb = NoBuffer
    /\ ob = NoObs
    /\ em \in IF kind = "gen"
               THEN {[NoLoop EXCEPT !.srcRet = e] : e \in SrcRets}
                        \cup {[NoLoop EXCEPT !.goesOn = TRUE]}
               ELSE {NoLoop}
    /\ tr = NoTransform

\* The state after a Read of n bytes whose effect and results are x.
ObsStep(x, n) ==
    /\ ReadStep(x)
    /\ ob' = Observed(ob, r, co, x, n)

\* r.Read(buf) with len(buf) = n.
ReadObs(n) ==
    /\ ~crashed
    /\ ObsStep(ReadOp(r, co, p, n), n)
    /\ UNCHANGED <<kind, prog, crashed, sink, sw, cb, em, tr>>

NextQ ==
    \/ \E n \in 0..MaxBuf : ReadObs(n)
    \/ Close

SpecQ == InitQ /\ [][NextQ]_vars

\* CopySeq on its own: one call over a sequence of any kind, to a sink that
\* takes everything, fails at some write, or takes less than it is offered.
InitC ==
    /\ kind \in Kinds
    /\ prog \in Progs(kind)
    /\ p = NewProducer
    /\ r = NewReader
    /\ co = NoContinuation
    /\ crashed = FALSE
    /\ out = <<>>
    /\ sink = <<>>
    /\ last = NoCall
    /\ h = NewHistory
    /\ hist = [wt |-> NoTransfer, rd |-> NoTransfer]
    /\ sw = SeqWriter(TRUE)
    /\ cb = NoBuffer
    /\ ob = NoObs
    /\ em = NoLoop
    /\ tr = NoTransform

\* The state after a CopySeq that returned x.
CopyStep(x) ==
    /\ p' = x.p
    /\ sink' = x.bytes
    /\ last' = Call("CopySeq", x.n, x.err)

\* CopySeq(w, seq), w a sink whose f-th Write fails or, for f < 0, whose
\* (-f)-th Write is short.
CopySeqCall(f) ==
    /\ last.op = "none"
    /\ CopyStep(CopySeq(f, "orig", p))
    /\ UNCHANGED <<kind, prog, r, co, crashed, out, h, hist, sw, cb, em, tr, ob>>

NextC == \E f \in -MaxSteps..MaxSteps : CopySeqCall(f)

SpecC == InitC /\ [][NextC]_vars

\* ------------------------------------------------------- claims: vocabulary

\* The bytes of a program's chunks, in emission order.
RECURSIVE Flat(_)
Flat(steps) == IF steps = <<>> THEN <<>> ELSE Head(steps).chunk \o Flat(Tail(steps))

IsPrefix(a, b) == Len(a) <= Len(b) /\ SubSeq(b, 1, Len(a)) = a

\* No step of the program carries a failure (io.EOF is not one).
ErrorFree(steps) == \A i \in 1..Len(steps) : ~Genuine(steps[i].err)

\* Only Read has been called on the reader.
OnlyReads == h.ops \subseteq {"Read"}

\* ---------------------------------------------------------------------- C1

\* C1: over a finite error-free sequence of chunks, empty ones included, and
\* under every schedule of Read calls, the bytes the Read calls have returned
\* are at all times a prefix of the concatenation of the chunks in emission
\* order, and at the first end-of-stream they are exactly that concatenation;
\* no other status than end-of-stream ends the stream.
C1_ReadsYieldConcatenation ==
    (kind = "seq" /\ ErrorFree(prog) /\ OnlyReads)
        => /\ IsPrefix(out, Flat(prog))
           /\ h.term # "nil" => (h.term = "EOF" /\ out = Flat(prog))

\* The chunks <<2, 3>>, <<>>, <<1>> have been read to end-of-stream.
C1_Witness ==
    /\ kind = "seq"
    /\ prog = <<ChunkStep(<<2, 3>>), ChunkStep(<<>>), ChunkStep(<<1>>)>>
    /\ OnlyReads
    /\ h.term = "EOF"
    /\ out = <<2, 3, 1>>

\* ---------------------------------------------------------------------- C2

\* C2: round trip.  For a source that delivers a byte string in any partition
\* into fills (fallback path) or writes (fast path) and ends cleanly,
\* ReaderFromSeq(SeqFromReader(src, bufSize)) read to end-of-stream returns
\* exactly the source's bytes in order, and end-of-stream is the only status.
C2_RoundTrip ==
    (kind \in {"fallback", "fast"} /\ ErrorFree(prog) /\ OnlyReads)
        => /\ IsPrefix(out, Flat(prog))
           /\ h.term # "nil" => (h.term = "EOF" /\ out = Flat(prog))

\* A plain source filled <<2, 3>>, then nothing, then <<1>> together with
\* io.EOF, and the reader has returned all of it.
C2_Witness ==
    /\ kind = "fallback"
    /\ prog = <<Fill(<<2, 3>>, "nil"), Fill(<<>>, "nil"), Fill(<<1>>, "EOF")>>
    /\ OnlyReads
    /\ h.term = "EOF"
    /\ out = <<2, 3, 1>>

\* ---------------------------------------------------------------------- C3

\* C3: for the same sequence, what WriteTo on a fresh reader delivers to a sink
\* that accepts every write equals what repeated Read calls on another fresh
\* reader return up to the terminal status, in count and content, and both end
\* alike: WriteTo returns nil where Read meets end-of-stream, and the same
\* failure otherwise.
C3_WriteToEqualsReads ==
    (hist.wt.set /\ hist.rd.set)
        => /\ hist.wt.bytes = hist.rd.bytes
           /\ hist.wt.n = hist.rd.n
           /\ \/ hist.wt.err = "nil" /\ hist.rd.err = "EOF"
              \/ Genuine(hist.wt.err) /\ hist.wt.err = hist.rd.err

\* Both transfers of <<1>>, <<2, 3>>, E1 have been made.
C3_Witness ==
    /\ prog = <<ChunkStep(<<1>>), ChunkStep(<<2, 3>>), ErrStep("E1")>>
    /\ hist.wt.set
    /\ hist.rd.set
    /\ hist.wt.bytes = <<1, 2, 3>>
    /\ hist.rd.err = "E1"

\* ---------------------------------------------------------------------- C4

\* A Read has just returned with bytes of its chunk left over.
PartialRead == last.op = "Read" /\ last.err = "nil" /\ SliceLen(r.data) > 0

\* C4: after a Read that left part of a chunk, the producer is suspended in the
\* yield that delivered the chunk and none of its code after the loop has run;
\* a Close that follows makes that yield return false once, and when Close
\* returns the producer has run to its end: its cleanup has run exactly once.
C4_CloseAfterPartialRead ==
    /\ [](PartialRead => (p.pc = "yield" /\ p.sub = "data" /\ p.returned = 0
                            /\ p.refusals = 0 /\ ~co.done))
    /\ [][(PartialRead /\ last'.op = "Close")
            => (p'.pc = "done" /\ p'.returned = 1 /\ p'.refusals = 1
                  /\ p'.yields = p.yields /\ co'.done)]_vars

\* One byte of the chunk <<2, 3>> was read, then the reader was closed.
C4_Witness ==
    /\ last.op = "Close"
    /\ out = <<2>>
    /\ SliceLen(r.data) = 1
    /\ p.pc = "done"
    /\ p.returned = 1
    /\ p.refusals = 1

\* ---------------------------------------------------------------------- C5

\* C5: over every interleaving of Read, WriteTo and Close calls on a reader, at
\* most one continuation is created, its release function is called at most
\* once, the producer sees at most one refusal, and every Close returns nil.
C5_CloseIdempotent ==
    /\ co.pulls <= 1
    /\ co.stops <= 1
    /\ p.refusals <= 1
    /\ last.op = "Close" => last.err = "nil"

\* Close was called again on a reader whose continuation had been released
\* while the producer was suspended.
C5_Witness ==
    /\ last.op = "Close"
    /\ h.reclosed
    /\ co.stops = 1
    /\ p.refusals = 1
    /\ ~r.close

\* ---------------------------------------------------------------------- C6

\* C6 (as claimed): after Close has been called on a reader, every Read returns
\* 0 bytes and a non-nil status, whether or not a Read came before the Close.
C6_ReadAfterCloseEnds ==
    ("Close" \in h.ops /\ last.op = "Read") => (last.n = 0 /\ last.err # "nil")

\* ---------------------------------------------------------------------- C7

\* C7: once a Read has returned a terminal status, every later Read returns
\* 0 bytes and that same status, the recorded status never changes, and no
\* later call resumes the continuation through next.
C7_TerminalStatusSticks ==
    /\ []((h.reread /\ last.op = "Read") => (last.n = 0 /\ last.err = h.term))
    /\ []((h.term # "nil" /\ ~crashed) => r.err = h.term)
    /\ [][(h.term # "nil" /\ last'.op # "none") => co'.nexts = co.nexts]_vars

\* A failure was returned by one Read and again by a later one.
C7_Witness ==
    /\ h.reread
    /\ last.op = "Read"
    /\ h.term = "E1"
    /\ last.err = "E1"
    /\ out = <<1>>

\* ---------------------------------------------------------------------- C8

\* The calls after a failure was reported do not drive the producer: it is not
\* called again, it yields nothing more and its source is not read again.
NotDrivenAfterFailure ==
    [][(h.fail # "nil" /\ last'.op # "none")
         => (p'.starts = p.starts /\ p'.yields = p.yields
               /\ p'.srcReads = p.srcReads)]_vars

\* C8 (as claimed): once Read or WriteTo has reported a genuine failure, every
\* later Read reports that same failure.
C8_FailureSticks ==
    (h.fail # "nil" /\ last.op = "Read") => last.err = h.fail

\* C8 (amended): once a Read has reported a genuine failure, every later Read
\* reports that same failure; once a WriteTo has reported a failure (of the
\* sequence or of the sink), every later Read reports end-of-stream; in
\* neither case is the producer driven again.
C8_FailureSticksForRead ==
    /\ []((h.fail # "nil" /\ last.op = "Read")
            => (last.n = 0
                  /\ last.err = IF h.failBy = "Read" THEN h.fail ELSE "EOF"))
    /\ NotDrivenAfterFailure

\* WriteTo reported the failure of the sequence and a later Read reported
\* end-of-stream.
C8_Witness ==
    /\ h.fail = "E1"
    /\ h.failBy = "WriteTo"
    /\ last.op = "Read"
    /\ last.err = "EOF"
    /\ sink = <<1>>

\* ---------------------------------------------------------------------- C9

\* C9: a WriteTo called before any Read drives the sequence into the sink
\* without creating a continuation; after it the producer is never called
\* again and yields nothing more, every Read returns (0, end-of-stream) and
\* a later WriteTo writes nothing.
C9_WriteToExhausts ==
    /\ [][(h.first = "none" /\ last'.op = "WriteTo")
            => (co' = co /\ ~r'.next /\ p'.starts = 1 /\ p'.pc = "done")]_vars
    /\ [][(h.first = "WriteTo" /\ last'.op # "none")
            => (p' = p /\ sink' = sink
                  /\ (last'.op = "Read" => (last'.n = 0 /\ last'.err = "EOF"))
                  /\ (last'.op = "WriteTo" => last'.n = 0))]_vars
    /\ []((h.first = "WriteTo" /\ last.op = "Read") => last.err = "EOF")

\* After a WriteTo that delivered three bytes, the reader was read and then
\* written to the sink once more.
C9_Witness ==
    /\ h.first = "WriteTo"
    /\ "Read" \in h.ops
    /\ last.op = "Read"
    /\ last.err = "EOF"
    /\ sink = <<1, 2, 3>>
    /\ co.over = "empty"

\* --------------------------------------------------------------------- C10

SequenceTerminated == [n |-> 0, err |-> "ErrSequenceTerminated"]

\* C10: a Write on a sequence sink whose active flag is false returns
\* (0, ErrSequenceTerminated) and does not call the step function; the flag is
\* false once the step function has refused, so the step function is never
\* called after it has returned a refusal.
C10_NoYieldWhenInactive ==
    /\ [][(~sw.active /\ sw'.writes = sw.writes + 1)
            => (sw'.ret = SequenceTerminated /\ sw'.yields = sw.yields
                  /\ sw'.got = sw.got /\ ~sw'.active)]_vars
    /\ [](sw.refused => ~sw.active)
    /\ [](~sw.late)

\* The step function refused the second chunk, and two more writes were made.
C10_Witness ==
    /\ sw.refused
    /\ sw.yields = 2
    /\ sw.writes = 4
    /\ sw.ret = SequenceTerminated

\* --------------------------------------------------------------------- C11

\* C11: a Write made while the active flag is true calls the step function
\* exactly once, with the bytes written; if the step function accepts, Write
\* returns (len(buf), nil) and the flag stays true; if it refuses, Write sets
\* the flag to false and returns (0, ErrSequenceTerminated).
C11_WriteWhenActive ==
    [][(sw.active /\ sw'.writes = sw.writes + 1)
         => /\ sw'.yields = sw.yields + 1
            /\ sw'.got = Append(sw.got, sw'.arg)
            /\ IF sw'.ans
               THEN sw'.active /\ sw'.ret = [n |-> Len(sw'.arg), err |-> "nil"]
               ELSE ~sw'.active /\ sw'.ret = SequenceTerminated]_vars

\* The chunk <<2, 3>> was written and accepted, then <<1>> was written and
\* refused.
C11_Witness ==
    /\ sw.got = <<<<2, 3>>, <<1>>>>
    /\ sw.writes = 2
    /\ ~sw.ans
    /\ ~sw.active
    /\ sw.ret = SequenceTerminated

\* --------------------------------------------------------------------- C12

\* C12 (as claimed): the chunk handed to the step function is a copy, so a
\* chunk the consumer kept goes on showing the bytes it showed during the
\* step whatever the caller stores in its buffer afterwards.
C12_ChunkIsCopy ==
    cb.held.set => View(cb) = cb.held.seen

\* C12 (amended): the chunk handed to the step function is the slice that was
\* written, with its capacity cut down to its length: during the step it
\* shows exactly the bytes written, and it lies in the caller's buffer, so
\* that a chunk kept past the step shows whatever the caller's buffer holds
\* at those positions now.
C12_ChunkIsClippedAlias ==
    cb.held.set
        => /\ cb.held.arr = "buf"
           /\ cb.held.len = cb.k
           /\ cb.held.cap = cb.held.len
           /\ cb.held.seen = sw.got[Len(sw.got)]
           /\ View(cb) = SubSeq(cb.mem, 1, cb.k)

\* The consumer kept the chunk of Write(buf[:2]); the caller then stored a
\* byte at buf[0], and the kept chunk shows it.
C12_Witness ==
    /\ cb.held.set
    /\ cb.k = 2
    /\ cb.overwritten
    /\ cb.held.seen = <<1, 2>>
    /\ View(cb) = <<OverwrittenByte, 2>>

\* --------------------------------------------------------------------- C13

\* C13: a Write of buf[:k] leaves every byte of the caller's buffer as it
\* was, also at the positions from k on, when the step function appends to
\* the chunk it is handed: the chunk's capacity is its length, so the append
\* goes to a new array.
C13_AppendLeavesBuffer ==
    /\ [][sw'.writes = sw.writes + 1 => cb'.mem = cb.mem]_vars
    /\ [](cb.held.set => cb.held.cap = cb.held.len)

\* buf[:1] was written, the step function appended to its chunk, and the
\* buffer is as it was at the start.
C13_Witness ==
    /\ cb.held.set
    /\ cb.k = 1
    /\ cb.appended
    /\ sw.writes = 1
    /\ cb.mem = CallerBuf

\* ----------------------------------------- claims: SeqFromReader in a loop

\* The steps the fills of a plain source are to give: a chunk for each fill
\* that is not empty and, after the last, an error step if the source failed.
RECURSIVE FillSteps(_)
FillSteps(fills) ==
    IF fills = <<>> THEN <<>>
    ELSE (IF Len(Head(fills).chunk) > 0 THEN <<ChunkStep(Head(fills).chunk)>> ELSE <<>>)
         \o (IF Genuine(Head(fills).err) THEN <<ErrStep(Head(fills).err)>>
             ELSE FillSteps(Tail(fills)))

\* The source's last fill or write reports a failure.
EndsInFailure(steps) == steps # <<>> /\ Genuine(steps[Len(steps)].err)

\* The loop over the sequence has ended and its body never left it.
RanToEnd == em.started /\ p.pc = "done" /\ em.refusedAt = 0

\* An error step is the last step.
ErrorStepIsLast == \A i \in 1..(Len(em.steps) - 1) : em.steps[i].err = "nil"

\* --------------------------------------------------------------------- C14

\* C14: on the fallback path, when the source ends cleanly, no step carries an
\* error, and a loop that runs to the end has received one chunk for each
\* fill that was not empty, the bytes delivered together with io.EOF among
\* them as the last chunk.
C14_CleanEndNoErrorStep ==
    (kind = "fallback" /\ ErrorFree(prog))
        => /\ \A i \in 1..Len(em.steps) : em.steps[i].err = "nil"
           /\ RanToEnd => em.steps = FillSteps(prog)

\* The source filled <<2, 3>> and then <<1>> together with io.EOF.
C14_Witness ==
    /\ kind = "fallback"
    /\ prog = <<Fill(<<2, 3>>, "nil"), Fill(<<1>>, "EOF")>>
    /\ RanToEnd
    /\ em.steps = <<ChunkStep(<<2, 3>>), ChunkStep(<<1>>)>>

\* --------------------------------------------------------------------- C15

\* C15: on the fallback path, when the source reports a failure, with or
\* without bytes in the same fill, a loop that never leaves receives the
\* chunks of the fills that were not empty, the bytes of the failed fill
\* among them, and then one error step with that failure; the error step is
\* the last step, and the source is not read again.
C15_FailureIsLastStep ==
    (kind = "fallback" /\ EndsInFailure(prog))
        => /\ ErrorStepIsLast
           /\ p.srcReads <= Len(prog)
           /\ RanToEnd => em.steps = FillSteps(prog)

\* The source filled <<1>> and then <<2, 3>> together with the failure E1.
C15_Witness ==
    /\ kind = "fallback"
    /\ prog = <<Fill(<<1>>, "nil"), Fill(<<2, 3>>, "E1")>>
    /\ RanToEnd
    /\ em.steps = <<ChunkStep(<<1>>), ChunkStep(<<2, 3>>), ErrStep("E1")>>

\* --------------------------------------------------------------------- C16

\* C16 (as claimed): every step of a sequence built by SeqFromReader carries
\* a chunk or an error, never both and never neither; on the fallback path a
\* fill of zero bytes with no terminal signal gives no step.
C16_ExactlyOneOfChunkAndError ==
    /\ \A i \in 1..Len(em.steps) :
           (~em.steps[i].absent) # (em.steps[i].err # "nil")
    /\ kind = "fallback" => IsPrefix(em.steps, FillSteps(prog))

\* --------------------------------------------------------------------- C17

\* C17: on the fast path each write of the source is one step, in order; when
\* the loop body leaves at a chunk, the write fails, the source stops, and
\* no step follows, whatever the source's WriteTo returns; when WriteTo
\* returns a failure and the body has not left at a chunk, the failure is
\* one error step, the last.
C17_FastPathSteps ==
    kind = "fast"
        => /\ IsPrefix(em.steps, prog)
           /\ em.refusedAt # 0
                 => (p.pc = "done" /\ Len(em.steps) = em.refusedAt
                       /\ (em.steps[em.refusedAt].err = "nil"
                              => (~p.active /\ p.i = em.refusedAt)))
           /\ (em.started /\ p.pc = "done" /\ em.refusedAt \in {0, Len(prog)})
                 => em.steps = prog

\* The body left the loop at the first chunk, and the source's WriteTo
\* returned a failure of its own.
C17_Witness ==
    /\ kind = "fast"
    /\ em.srcRet = "E1"
    /\ prog = <<ChunkStep(<<1>>), ChunkStep(<<2, 3>>)>>
    /\ em.refusedAt = 1
    /\ em.steps = <<ChunkStep(<<1>>)>>
    /\ p.pc = "done"

\* ------------------------------------------------ claims: PipeSeqThrough

\* The chunks of a program's chunk steps, in order.
ChunksOf(steps) == [i \in 1..Len(steps) |-> steps[i].chunk]

\* The loop over the composed sequence has ended.
PipeDone == tr.pc = "done"

\* --------------------------------------------------------------------- C18

\* C18: when send fails (the input emits an error, or the transform's Write
\* or Close fails) and the loop body has not left the loop, the composed
\* sequence ends with one error step that carries the failure, the only error
\* step; once the loop body has left the loop, it receives no step of any
\* kind, whatever the transform goes on to do.
C18_PipeFailureOrSilence ==
    /\ []((PipeDone /\ tr.ret # "nil" /\ em.refusedAt \in {0, Len(em.steps)}
              /\ (em.refusedAt # 0 => em.steps[em.refusedAt].err # "nil"))
           => (/\ em.steps # <<>>
               /\ em.steps[Len(em.steps)] = ErrStep(tr.ret)
               /\ tr.ret \in Errs \cup {ErrTransform, ErrClose}))
    /\ [](ErrorStepIsLast)
    /\ [](em.refusedAt # 0 => Len(em.steps) = em.refusedAt)
    /\ [][em.refusedAt # 0 => em'.steps = em.steps]_vars

\* The loop body left the loop at the first chunk; the transform ignored the
\* failed write, was written to again and closed with a failure; no step
\* followed.
C18_Witness ==
    /\ PipeDone
    /\ tr.swallow
    /\ tr.mode = "trailer"
    /\ tr.writes = 2
    /\ tr.closes = 1
    /\ tr.ret = ErrClose
    /\ em.refusedAt = 1
    /\ em.steps = <<ChunkStep(<<1>>)>>

\* --------------------------------------------------------------------- C19

\* The transform's Write does not fail on any chunk of the program.
WritesSucceed == tr.failAt = 0 \/ tr.failAt > Len(prog)

\* What the loop is to receive for the chunks of an error-free program.
PipeSteps ==
    CASE tr.mode = "pass" -> prog
      [] tr.mode = "trailer" -> Append(prog, ChunkStep(Trailer))
      [] OTHER -> IF Flat(prog) = <<>> THEN <<>> ELSE <<ChunkStep(Flat(prog))>>

C20_OneChunkAhead ==
    /\ []("WriteTo" \notin h.ops
            => /\ IsPrefix(out, Flat(prog))
               /\ h.consumed <= p.yields
               /\ p.yields <= h.consumed + 1)
    /\ [][co'.nexts > co.nexts
            => (last'.op = "Read" /\ SliceLen(r.data) = 0
                  /\ p'.yields <= p.yields + 1)]_vars
    /\ [][(last'.op \in {"Read", "Close"} /\ co'.nexts = co.nexts)
            => p'.yields = p.yields]_vars

\* The producer has emitted <<1>> and <<2, 3>>; the Reads have used up the
\* first chunk and one byte of the second.
C20_Witness ==
    /\ OnlyReads
    /\ prog = <<ChunkStep(<<1>>), ChunkStep(<<2, 3>>), ChunkStep(<<1>>)>>
    /\ out = <<1, 2>>
    /\ p.yields = 2
    /\ h.consumed = 1
    /\ SliceLen(r.data) = 1

\* --------------------------------------------------------------------- C21

\* C21: ReaderFromSeq runs no code of the producer: until the first Read or
\* WriteTo the sequence function has not been called and there is no
\* continuation.  Once a Read has been called the reader has dropped the
\* sequence for good and has exactly one continuation; a reader never has
\* more than one; and on a reader whose first call was a Read no WriteTo
\* drives the sequence directly: nothing reaches a sink and the sequence
\* function is called once at most, by the continuation.
C21_LazyAndIrreversible ==
    /\ h.first = "none"
          => (p.starts = 0 /\ p.pc = "init" /\ co.pulls = 0 /\ r.seq = "orig")
    /\ "Read" \in h.ops => (r.seq = "nil" /\ co.pulls = 1)
    /\ co.pulls <= 1
    /\ h.first = "Read" => (sink = <<>> /\ p.starts <= 1)
    /\ (h.first = "Read" /\ p.starts = 1) => co.started

\* A Read took the first byte of <<2, 3>> and a WriteTo followed: it found no
\* sequence to drive, and the one continuation is all that called the producer.
C21_Witness ==
    /\ h.first = "Read"
    /\ "WriteTo" \in h.ops
    /\ prog = <<ChunkStep(<<2, 3>>)>>
    /\ out = <<2>>
    /\ r.seq = "nil"
    /\ co.pulls = 1
    /\ p.starts = 1
    /\ sink = <<>>

\* --------------------------------------------------------------------- C22

\* C22 (as stated): every Read copies min(len(buf), length of the residual at
\* hand) bytes, takes a new chunk only if it found the residual empty, and
\* returns nil while residual bytes remain and the recorded status otherwise.
C22_EveryReadCopiesMin ==
    last.op = "Read"
        => /\ ob.fetched => ob.had = 0
           /\ last.n = Min(ob.req, ob.got)
           /\ last.err = IF SliceLen(r.data) > 0 THEN "nil" ELSE r.err

\* C22 (amended): a Read that finds no status recorded calls next exactly
\* when it finds the residual empty, copies min(len(buf), length of the
\* residual or of the chunk it took) bytes of that one chunk, leaves the rest
\* as the residual, and returns nil if bytes remain and the recorded status
\* if none do.  A Read that finds a status recorded copies nothing, calls
\* nothing and returns that status, residual or not.
C22_ReadCopiesMin ==
    last.op = "Read"
        => /\ ob.fetched <=> (ob.before = "nil" /\ ob.had = 0)
           /\ ob.before = "nil"
                => /\ ob.had > 0 => ob.got = ob.had
                   /\ last.n = Min(ob.req, ob.got)
                   /\ SliceLen(r.data) = ob.got - last.n
                   /\ last.err = IF SliceLen(r.data) > 0 THEN "nil" ELSE r.err
           /\ ob.before # "nil"
                => /\ last.n = 0
                   /\ last.err = ob.before
                   /\ SliceLen(r.data) = ob.had

\* Of the chunk <<2, 3>> a Read of one byte left a residual of one byte, Close
\* recorded the end of the stream, and a Read of one byte found the residual
\* and returned (0, EOF).
C22_Witness ==
    /\ last = Call("Read", 0, "EOF")
    /\ prog = <<ChunkStep(<<2, 3>>)>>
    /\ out = <<2>>
    /\ ob.req = 1
    /\ ob.had = 1
    /\ ob.before = "EOF"
    /\ "Close" \in h.ops

\* --------------------------------------------------------------------- C23

\* C23: when CopySeq returns a nil error, the count it returns is the number
\* of bytes the sequence produced, the sum of the lengths of its chunks,
\* whatever the sink did with them.
C23_CountIsBytesRead ==
    (last.op = "CopySeq" /\ last.err = "nil") => last.n = Len(Flat(prog))

\* --------------------------------------------------------------------- C24

\* What generate returns when none of its writes fails.
GenRet == IF prog # <<>> /\ prog[Len(prog)].err # "nil" THEN prog[Len(prog)].err
          ELSE "nil"

\* C24: on ReaderWithContent(generate), the Reads return the bytes generate
\* wrote, in order; if Close has not been called, the first status a Read
\* returns comes after all of them and is the error generate returned, or
\* io.EOF if it returned nil.  Once Close has stopped the sequence while
\* generate was in a Write, whatever generate then does or returns yields no
\* further step and no Read reports a failure: the Reads return io.EOF.
C24_GenerateError ==
    kind = "gen"
        => /\ IsPrefix(out, Flat(prog))
           /\ ("Close" \notin h.ops /\ h.term # "nil")
                => /\ out = Flat(prog)
                   /\ h.term = IF GenRet = "nil" THEN "EOF" ELSE GenRet
                   /\ r.err = h.term
           /\ ~p.active
                => /\ p.pc = "done"
                   /\ p.sub = "data"
                   /\ "Close" \in h.ops
                   /\ r.err = "EOF"
                   /\ h.fail = "nil"
                   /\ h.term \in {"nil", "EOF"}

\* generate wrote <<1>> and <<2, 3>> and returned E1: the Reads returned the
\* three bytes and then E1.
C24_Witness ==
    /\ kind = "gen"
    /\ prog = <<ChunkStep(<<1>>), ChunkStep(<<2, 3>>), ErrStep("E1")>>
    /\ "Close" \notin h.ops
    /\ out = <<1, 2, 3>>
    /\ last = Call("Read", 0, "E1")
    /\ h.term = "E1"

\* --------------------------------------------------------------------- C25

\* C25: a WriteTo on a reader whose first call was a Read returns: the
\* process is alive after it, the bytes the Reads had not returned are in
\* the sink and their number is the count.
C25_WriteToAfterReadReturns ==
    (h.first = "Read" /\ last.op = "WriteTo")
        => /\ ~crashed
           /\ out \o sink = Flat(prog)
           /\ last.n = Len(sink)

\* --------------------------------------------------------------------- C26

\* C26: on the fast path, once a call of the step function has returned
\* false the step function is not called again: the sequence function has
\* returned, whatever the source did after its write failed.
C26_NoStepAfterRefusal ==
    (kind = "fast" /\ p.refusals > 0) => (p.pc = "done" /\ ~crashed)

\* --------------------------------------------------------------------- C27

\* The fill at which the source returns its terminal signal: the last fill of
\* prog if it carries one, else the fill after them, which returns (0, io.EOF).
TermFill ==
    IF prog # <<>> /\ prog[Len(prog)].err # "nil" THEN Len(prog) ELSE Len(prog) + 1

\* C27: on the fallback path the source is read up to the fill that returns
\* its terminal signal and no further; while a step is pending the source
\* has been read up to the fill behind it; and once the step function has
\* returned false the sequence function has returned with no other fill and
\* no other call of the step function: the refused step is the last step.
C27_NoFillAfterEnd ==
    kind = "fallback"
        => /\ p.srcReads <= TermFill
           /\ p.pc = "yield" => p.srcReads = p.i
           /\ (p.pc = "done" /\ p.refusals = 0) => p.srcReads = TermFill
           /\ p.refusals > 0
                => /\ p.pc = "done"
                   /\ p.refusals = 1
                   /\ p.srcReads = p.i
                   /\ p.yields = Len(em.steps)
                   /\ em.refusedAt = Len(em.steps)

\* Of three fills the first was refused: the source was read once.
C27_Witness ==
    /\ kind = "fallback"
    /\ prog = <<ChunkStep(<<1>>), ChunkStep(<<2, 3>>), Fill(<<1>>, "E1")>>
    /\ em.refusedAt = 1
    /\ p.pc = "done"
    /\ p.srcReads = 1
    /\ p.yields = 1

\* --------------------------------------------------------------------- C28

\* C28: while the reader holds residual bytes and has not been closed, the
\* producer is suspended in the yield of the chunk they belong to, and the
\* residual is the end of that chunk.  After Close has released the
\* continuation, resuming the producer, no Read returns a byte, whatever
\* residual was pending.
C28_ResidualWithinStep ==
    /\ (SliceLen(r.data) > 0 /\ co.stops = 0)
          => /\ p.pc = "yield"
             /\ p.sub = "data"
             /\ r.data.hi = p.n
             /\ Bytes(p, r.data) = SubSeq(p.buf, p.n - SliceLen(r.data) + 1, p.n)
    /\ (co.stops > 0 /\ last.op = "Read") => last.n = 0
    /\ co.stops > 0 => (p.pc # "yield" /\ r.err # "nil")

\* A Read took the first byte of <<2, 3>>, Close resumed the producer, which
\* returned, and a Read returned (0, EOF): the byte 3 stays in the residual.
C28_Witness ==
    /\ prog = <<ChunkStep(<<2, 3>>)>>
    /\ co.stops = 1
    /\ p.pc = "done"
    /\ SliceLen(r.data) = 1
    /\ last = Call("Read", 0, "EOF")
    /\ out = <<2>>

\* --------------------------------------------------------------------- C29

\* C29: over a sequence whose steps carry a chunk or an error and never
\* both, a Read that returns bytes returns a nil status with them, so that a
\* status is returned with 0 bytes only; and a Read that calls next and is
\* given an empty chunk returns (0, nil).
C29_StatusOnlyWithZero ==
    last.op = "Read"
        => /\ last.n > 0 => last.err = "nil"
           /\ (ob.fetched /\ r.err = "nil" /\ ob.got = 0) => last = Call("Read", 0, "nil")

\* A Read of one byte took the empty first chunk and returned (0, nil).
C29_Witness ==
    /\ prog = <<ChunkStep(<<>>), ChunkStep(<<1>>)>>
    /\ last = Call("Read", 0, "nil")
    /\ ob.req = 1
    /\ ob.fetched
    /\ ob.got = 0
    /\ p.i = 1
    /\ out = <<>>

\* --------------------------------------------------------------------- C30

\* One Read for each byte the producer emits, one for each empty chunk, and one.
ReadBound ==
    Len(Flat(prog))
        + Cardinality({i \in 1..Len(prog) : prog[i].err = "nil" /\ prog[i].chunk = <<>>})
        + 1

\* C30: the Reads with a buffer of one byte or more that are made until a
\* Read returns a status, that Read included, are at most one for each byte
\* the producer emits, one for each empty chunk and one; when that many have
\* been made, a status has been returned.  Each of them returned bytes, took
\* an empty chunk or returned the status.
C30_ReadsBounded ==
    /\ ob.reads <= ReadBound
    /\ ob.reads = ReadBound => h.term # "nil"
    /\ ob.reads <= Len(out) + ob.empties + (IF h.term # "nil" THEN 1 ELSE 0)

\* Four Reads of one byte over an empty chunk and <<2, 3>>: (0, nil), (1, nil),
\* (1, nil) and (0, EOF).
C30_Witness ==
    /\ prog = <<ChunkStep(<<>>), ChunkStep(<<2, 3>>)>>
    /\ ob.reads = 4
    /\ ob.empties = 1
    /\ out = <<2, 3>>
    /\ last = Call("Read", 0, "EOF")
    /\ h.term = "EOF"
    /\ "Close" \notin h.ops

\* --------------------------------------------------------------------- C31

\* CopySeq has failed in send: the input has emitted its error step, the
\* transform's Write has failed of itself, or it has returned the failure of
\* its write of a chunk to the sequence sink.
SendFailed ==
    \/ p.sub = "err"
    \/ (tr.failAt # 0 /\ tr.writes >= tr.failAt)
    \/ (sw.refused /\ ~tr.swallow /\ tr.at = "chunk")

\* C31: when CopySeq has failed in send, the transform's Close is not called:
\* neither the trailer nor the bytes the transform holds back reach the
\* sequence sink or the loop.
C31_NoCloseAfterFailure ==
    (tr.pc # "init" /\ SendFailed)
        => /\ tr.closes = 0
           /\ tr.ret # "nil"
           /\ tr.at # "close"
           /\ \A i \in 1..Len(em.steps) : em.steps[i].chunk # Trailer
           /\ \A i \in 1..Len(sw.got) : sw.got[i] # Trailer
           /\ tr.mode = "buffer" => sw.got = <<>>

\* Through a transform that writes a trailer on Close went <<1>> and then the
\* input's error: the loop received the chunk and the error, no trailer.
C31_Witness ==
    /\ PipeDone
    /\ tr.mode = "trailer"
    /\ prog = <<ChunkStep(<<1>>), ErrStep("E1")>>
    /\ em.steps = <<ChunkStep(<<1>>), ErrStep("E1")>>
    /\ tr.closes = 0
    /\ tr.ret = "E1"

\* --------------------------------------------------------------------- C32

\* Close releases the continuation of a reader that has read part of the
\* stream: a Read has been given a chunk and no status is recorded.
ClosesPartlyRead == co'.stops > co.stops /\ r.err = "nil"

\* C32: on a reader built by PipeThrough over a transform that returns the
\* failures of the sink to its caller, a Close after a partial Read ends the
\* whole chain: when it returns, the composed sequence and the input
\* sequence have returned; during it the source is not read, the transform
\* is not written to, the input sequence yields nothing and the composed
\* sequence yields nothing after the refused step, an error step least of
\* all; and it stays so whatever is called afterwards.
C32_CloseEndsChain ==
    /\ []((co.stops > 0 /\ ~tr.swallow)
             => (tr.pc = "done" /\ p.pc = "done" /\ ~sw.late))
    /\ [][(ClosesPartlyRead /\ ~tr.swallow)
             => /\ tr.pc = "write"
                /\ tr'.pc = "done"
                /\ p'.pc = "done"
                /\ p'.srcReads = p.srcReads
                /\ p'.yields = p.yields
                /\ tr'.writes = tr.writes
                /\ sw'.yields = sw.yields + 1
                /\ ~sw'.active]_vars
    /\ [][co.stops > 0 => (p' = p /\ tr' = tr /\ sw' = sw /\ out' = out)]_vars

\* Of three fills the first went through the transform and one Read returned
\* it; Close then ended the chain with the source read once.
C32_Witness ==
    /\ kind = "fallback"
    /\ prog = <<ChunkStep(<<1>>), ChunkStep(<<2, 3>>), Fill(<<1>>, "E1")>>
    /\ tr.mode = "pass"
    /\ ~tr.swallow
    /\ tr.failAt = 0
    /\ last.op = "Close"
    /\ co.stops = 1
    /\ out = <<1>>
    /\ p.pc = "done"
    /\ tr.pc = "done"
    /\ p.srcReads = 1
    /\ tr.ret = "ErrSequenceTerminated"

====
